---- MODULE Spec2Model ----
(***************************************************************************)
(* Morphorama: the evolution orchestrator (processEvolution), the run      *)
(* ledger (EvolutionRepository), the frame store (EvolutionFrameRepository *)
(* and StorageService) and the start endpoint that creates and starts a    *)
(* run.  One run is followed from its creation to the end of the           *)
(* orchestrator invocation that processes it (Spec), or of two invocations *)
(* that process it at the same time (SpecTwo).  Every awaited call of the  *)
(* orchestrator is one action; each call into the database, the blob       *)
(* store, the LLM or the image provider either succeeds or throws.         *)
(* SpecRuns follows two runs with different ids, SpecConfig the start of   *)
(* the backend process from its environment, SpecCrash a backend process   *)
(* that dies and is started again, and SpecQueue a run whose job a queue   *)
(* consumer hands to processEvolution.                                     *)
(***************************************************************************)
EXTENDS Integers, FiniteSets, Sequences, TLC

\* Largest total_iterations a run is created with in the model.
MaxIterations == 3

\* const maxRetries = 3 (retry loop of processEvolution).
maxRetries_four == 3 + 1

maxRetries == 3

\* defaultJobOptions.attempts of the evolution queue.
queueAttempts == 3

\* SQL NULL in a text column.
NULL == "<NULL>"

\* An environment variable that is not set, a property that is absent.
undefined == "<undefined>"

Iterations == 1..MaxIterations

VARIABLES
  variant,              \* which processor is deployed: "guided" or "fixed"
  ledger,               \* the run's row in evolutions
  frames,               \* the run's rows in evolution_frames, by iteration_number
  blobs,                \* bucket evolutions: the run's objects, by frame key
  ep,                   \* position of the start endpoint's handler
  queueJob,             \* the run's job in the BullMQ queue
  pc,                   \* position of the processEvolution invocation
  jobData,              \* job.data: do its ids name existing rows
  evolution,            \* const evolution (the row read at the start)
  iteration,            \* let iteration (for loop)
  inRetry,              \* is control inside the catch block's retry loop
  retryCount,           \* let retryCount
  previousFrameBuffer,  \* let previousFrameBuffer
  previousPrompt,       \* let previousPrompt
  promptResult,         \* const promptResult (.prompt)
  imageResult,          \* const imageResult (.imageBuffer)
  error,                \* the error caught by the outer catch (.message)
  result,               \* the EvolutionJobResult returned
  attempts,             \* history: attempts started, per iteration
  lastCall,             \* history: the latest LLM or image provider call
  exhaustedAt,          \* history: iteration whose retries were exhausted, or 0
  ledgerWrites,         \* history: ledger writes of the invocation that took effect
  faults,               \* history: calls that threw on the environment's account
  faultsLeft,           \* how many more calls the environment may let fail
  self,                 \* the invocation the variables from pc on belong to
  peer,                 \* a second invocation, suspended at an await
  other,                \* rows and objects the running invocation's ids do
                        \* not name: those of the other run
  boot,                 \* the backend process: its state and process.env
  request,              \* req.body of the start request that created the run
  attemptsMade          \* job.attemptsMade of the run's job

storeVars == <<ledger, frames, blobs>>
entryVars == <<ep, queueJob>>
loopVars  == <<iteration, inRetry, retryCount, previousFrameBuffer,
               previousPrompt, promptResult, imageResult>>
faultVars == <<faults, faultsLeft>>
histVars  == <<attempts, lastCall, exhaustedAt, ledgerWrites, faultVars>>
schedVars == <<self, peer>>
sysVars   == <<other, boot, request, attemptsMade>>
vars == <<variant, storeVars, entryVars, pc, jobData, evolution, loopVars,
          error, result, histVars, schedVars, sysVars>>

(***************************************************************************)
(* Data.  An image buffer is identified by the provider call that produced *)
(* it: the invocation, the iteration and the attempt (0 the initial         *)
(* attempt, r the r-th retry).  The provider is nondeterministic, so two   *)
(* calls never return the same bytes.  The same holds for the prompts the  *)
(* LLM derives.                                                            *)
(***************************************************************************)
Img(it, att) == [it |-> it, att |-> att, by |-> self]
SourcePhoto == [it |-> 0, att |-> 0, by |-> 0]
NoImage == [it |-> -1, att |-> -1, by |-> 0]

Prompt(it, att) == [it |-> it, att |-> att, by |-> self]
STATIC_PROMPT == [it |-> 0, att |-> 0, by |-> 0]
NoPrompt == [it |-> -1, att |-> -1, by |-> 0]

\* count: the number of rows of evolution_frames with this iteration_number.
NoFrame == [exists |-> FALSE, count |-> 0, iteration_number |-> 0,
            file_path |-> 0, file_size |-> NoImage, prompt_used |-> NoPrompt]

NoRun == [exists |-> FALSE, status |-> "none", current_iteration |-> 0,
          total_iterations |-> 0, started_at |-> NULL, completed_at |-> NULL,
          duration_seconds |-> NULL, error_message |-> NULL, retry_count |-> 0]

NoResult == [status |-> "none", framesGenerated |-> 0]
NoCall == [kind |-> "none", iteration |-> 0, image |-> NoImage,
           previousPrompt |-> NoPrompt, prompt |-> NoPrompt]

\* ledgerWrites and faults before the invocation has done anything.
NoWrites == [processing |-> 0, progress |-> 0, completed |-> 0, failed |-> 0]
NoFaults == [n |-> 0, step |-> "none", iteration |-> 0]
\* faultsLeft when the environment may let any number of calls fail.
AnyNumber == [limited |-> FALSE, n |-> 0]

(***************************************************************************)
(* EvolutionRepository: each operator is the UPDATE or INSERT the method   *)
(* issues.  An UPDATE ... WHERE id = $1 of a missing row changes nothing.  *)
(***************************************************************************)
OrDefault(x, d) == IF x = 0 THEN d ELSE x

create(total_iterations) ==
  [exists |-> TRUE, status |-> "queued", current_iteration |-> 0,
   total_iterations |-> OrDefault(total_iterations, 60),
   started_at |-> NULL, completed_at |-> NULL, duration_seconds |-> NULL,
   error_message |-> NULL, retry_count |-> 0]

\* An UPDATE that moves a run to 'processing' only from 'pending' or
\* 'queued'.
updateStatus_guarded(row, status) ==
  IF ~row.exists \/ row.status \notin {"pending", "queued"} THEN row
  ELSE [row EXCEPT !.status = status, !.started_at = "set"]

\* UPDATE evolutions SET status = $1, ... WHERE id = $2
updateStatus(row, status) ==
  IF ~row.exists THEN row
  ELSE [row EXCEPT
          !.status = status,
          !.started_at = IF status = "processing" THEN "set" ELSE @,
          !.completed_at = IF status \in {"completed", "failed"} THEN "set" ELSE @,
          !.duration_seconds =
             IF status \in {"completed", "failed"} THEN "set" ELSE @]

updateProgress_countdown(row, currentIteration) ==
  IF ~row.exists THEN row
  ELSE [row EXCEPT !.current_iteration = row.total_iterations - currentIteration]

updateProgress(row, currentIteration) ==
  IF ~row.exists THEN row
  ELSE [row EXCEPT !.current_iteration = currentIteration]

markComplete(row) ==
  IF ~row.exists THEN row
  ELSE [row EXCEPT !.status = "completed", !.completed_at = "set",
                   !.duration_seconds =
                      IF row.started_at = NULL THEN NULL ELSE "set"]

markFailed_requeue(row, errorMessage) ==
  IF ~row.exists THEN row
  ELSE [row EXCEPT !.status = "queued", !.error_message = errorMessage,
                   !.completed_at = "set", !.retry_count = @ + 1]

markFailed_noMessage(row, errorMessage) ==
  IF ~row.exists THEN row
  ELSE [row EXCEPT !.status = "failed", !.completed_at = "set",
                   !.retry_count = @ + 1]

markFailed_noRetryCount(row, errorMessage) ==
  IF ~row.exists THEN row
  ELSE [row EXCEPT !.status = "failed", !.error_message = errorMessage,
                   !.completed_at = "set"]

markFailed(row, errorMessage) ==
  IF ~row.exists THEN row
  ELSE [row EXCEPT !.status = "failed", !.error_message = errorMessage,
                   !.completed_at = "set", !.retry_count = @ + 1]

(***************************************************************************)
(* StorageService.uploadEvolutionFrame: PutObject under the key of         *)
(* (run, iteration); an existing object is overwritten.  The key           *)
(* "{run}/frame-{iteration padded to 3}.png" is one-to-one in the          *)
(* iteration for the iterations of a run, so the iteration stands for it.  *)
(***************************************************************************)
FrameKey_previous(iter) == IF iter > 1 THEN iter - 1 ELSE iter

FrameKey(iter) == iter

uploadEvolutionFrame(store, iter, fileBuffer) ==
  [store EXCEPT ![FrameKey(iter)] = fileBuffer]

(***************************************************************************)
(* EvolutionFrameRepository.create: INSERT INTO evolution_frames, under    *)
(* UNIQUE(evolution_id, iteration_number).  file_size, width and height    *)
(* are those of the image buffer, which stands for them.                   *)
(***************************************************************************)
UniqueViolation_none(rows, iter) == FALSE

UniqueViolation(rows, iter) == rows[iter].exists

frameCreate_skip(rows, iter, filePath, imageBuffer, prompt) == rows

frameCreate(rows, iter, filePath, imageBuffer, prompt) ==
  [rows EXCEPT ![iter] = [exists |-> TRUE, count |-> rows[iter].count + 1,
                          iteration_number |-> iter,
                          file_path |-> filePath, file_size |-> imageBuffer,
                          prompt_used |-> prompt]]

FrameSet == {i \in Iterations : frames[i].exists}

(***************************************************************************)
(* GET /api/evolution/:id/frames/:iteration/image: the row is looked up by *)
(* findByIteration (404 without a row) and the object at the row's         *)
(* file_path is downloaded and sent.                                       *)
(***************************************************************************)
getFrameImage(rows, store, iter) ==
  IF ~rows[iter].exists THEN NoImage ELSE store[rows[iter].file_path]

(***************************************************************************)
(* GET /api/evolution/:id: the progress shown is computed from the number  *)
(* of frame rows, not from the ledger's current_iteration.                 *)
(***************************************************************************)
RECURSIVE RowsUpTo(_, _)
RowsUpTo(rows, i) == IF i = 0 THEN 0 ELSE rows[i].count + RowsUpTo(rows, i - 1)

\* SELECT COUNT(*)::INTEGER as count FROM evolution_frames
\*  WHERE evolution_id = $1
countFrames(rows) == RowsUpTo(rows, Len(rows))

\* Math.round((numerator / denominator) * 100), for a positive denominator.
Percentage(numerator, denominator) ==
  (200 * numerator + denominator) \div (2 * denominator)

\* progress: {frames: frameCount, total: evolution.total_iterations,
\*            percentage: Math.round((frameCount / total) * 100)}
getProgress(row, rows) ==
  [frames |-> countFrames(rows), total |-> row.total_iterations,
   percentage |-> Percentage(countFrames(rows), row.total_iterations)]

(***************************************************************************)
(* The run id in the statements of a run.  The ledger statements are       *)
(* UPDATE evolutions ... WHERE id = $1, the frame statements carry         *)
(* evolution_id = $1, the frame key starts with "{evolutionId}/".  ledger, *)
(* frames and blobs hold what the ids of the running invocation name;      *)
(* other holds what they do not name.                                      *)
(***************************************************************************)
LedgerId(evolutionId) == evolutionId

FrameEvolutionId(evolutionId) == evolutionId

KeyPrefix_none(evolutionId) == 0

KeyPrefix(evolutionId) == evolutionId

\* No second run: no row and no object.
NoStores == [ledger |-> NoRun, frames |-> <<>>, blobs |-> <<>>]

(***************************************************************************)
(* Backend configuration: configSchema and parseConfig, run when the       *)
(* config module is loaded.  DATABASE_URL stands for the required strings  *)
(* (databaseUrl, redisUrl, the MinIO settings, the secrets).               *)
(***************************************************************************)
ImageProviders == {"google-imagen", "stability-ai", "huggingface"}
LlmProviders == {"gemini", "claude"}

\* No config: configSchema.parse threw a ZodError, or process.exit(1).
NoConfig ==
  [success |-> FALSE, imageProvider |-> undefined, llmProvider |-> undefined,
   googleGeminiApiKey |-> undefined, anthropicApiKey |-> undefined,
   stabilityApiKey |-> undefined, huggingfaceApiKey |-> undefined]

\* configSchema.parse({...process.env...}): z.string() rejects undefined,
\* z.enum(...).default(d) gives d for undefined and rejects any other value
\* outside the enum, z.string().optional() accepts undefined and ''.
configSchema(env) ==
  IF \/ env.DATABASE_URL = undefined
     \/ env.IMAGE_PROVIDER \notin ImageProviders \cup {undefined}
     \/ env.LLM_PROVIDER \notin LlmProviders \cup {undefined}
  THEN NoConfig
  ELSE [success |-> TRUE,
        imageProvider |-> IF env.IMAGE_PROVIDER = undefined
                          THEN "huggingface" ELSE env.IMAGE_PROVIDER,
        llmProvider |-> IF env.LLM_PROVIDER = undefined
                        THEN "gemini" ELSE env.LLM_PROVIDER,
        googleGeminiApiKey |-> env.GOOGLE_GEMINI_API_KEY,
        anthropicApiKey |-> env.ANTHROPIC_API_KEY,
        stabilityApiKey |-> env.STABILITY_API_KEY,
        huggingfaceApiKey |-> env.HUGGINGFACE_API_KEY]

Falsy_never(value) == FALSE

\* !value for an optional string.
Falsy(value) == value = undefined \/ value = ""

\* const missingKeys: string[] after the five tests.
missingKeys(parsed) ==
  (IF parsed.llmProvider = "gemini" /\ Falsy(parsed.googleGeminiApiKey)
   THEN {"GOOGLE_GEMINI_API_KEY (required for LLM provider: gemini)"}
   ELSE {}) \cup
  (IF parsed.llmProvider = "claude" /\ Falsy(parsed.anthropicApiKey)
   THEN {"ANTHROPIC_API_KEY (required for LLM provider: claude)"}
   ELSE {}) \cup
  (IF parsed.imageProvider = "google-imagen"
      /\ Falsy(parsed.googleGeminiApiKey)
   THEN {"GOOGLE_GEMINI_API_KEY (required for image provider: google-imagen)"}
   ELSE {}) \cup
  (IF parsed.imageProvider = "stability-ai" /\ Falsy(parsed.stabilityApiKey)
   THEN {"STABILITY_API_KEY (required for image provider: stability-ai)"}
   ELSE {}) \cup
  (IF parsed.imageProvider = "huggingface" /\ Falsy(parsed.huggingfaceApiKey)
   THEN {"HUGGINGFACE_API_KEY (required for image provider: huggingface)"}
   ELSE {})

\* parseConfig(): the parsed config, or NoConfig where it calls
\* process.exit(1) (a ZodError, a missing key).
parseConfig(env) ==
  LET parsed == configSchema(env)
  IN  IF ~parsed.success THEN NoConfig
      ELSE IF missingKeys(parsed) # {} THEN NoConfig
      ELSE parsed

\* getImageProvider(): switch (config.imageProvider), evaluated when the
\* module is loaded (export const imageProvider = getImageProvider()).
getImageProvider(cfg) ==
  CASE cfg.imageProvider = "google-imagen" ->
         [constructed |-> TRUE, value |-> "GoogleImagenService"]
    [] cfg.imageProvider = "stability-ai" ->
         [constructed |-> TRUE, value |-> "StabilityAIService"]
    [] OTHER ->
         [constructed |-> FALSE, value |-> "Unknown image provider"]

\* getLLMProvider(): switch (config.llmProvider), evaluated when the module
\* is loaded (export const llmProvider = getLLMProvider()).
getLLMProvider(cfg) ==
  CASE cfg.llmProvider = "gemini" ->
         [constructed |-> TRUE, value |-> "GeminiService"]
    [] cfg.llmProvider = "claude" ->
         [constructed |-> FALSE,
          value |-> "Claude provider not yet implemented"]
    [] OTHER ->
         [constructed |-> FALSE, value |-> "Unknown LLM provider"]

\* An environment the backend runs with: providers that the factories
\* construct (stability-ai and the default gemini) and their keys.
DeployedEnv ==
  [DATABASE_URL |-> "url", IMAGE_PROVIDER |-> "stability-ai",
   LLM_PROVIDER |-> undefined, GOOGLE_GEMINI_API_KEY |-> "key",
   ANTHROPIC_API_KEY |-> undefined, STABILITY_API_KEY |-> "key",
   HUGGINGFACE_API_KEY |-> undefined]

\* The backend process up and serving, its config and providers loaded.
Deployed == [state |-> "running", env |-> DeployedEnv]

\* The same with an image provider key that is set and that the provider
\* rejects (HTTP 401 or 403).
DeployedRejected ==
  [state |-> "running",
   env |-> [DeployedEnv EXCEPT !.STABILITY_API_KEY = "rejected"]]

\* export const config = parseConfig(): the config of the running process.
config ==
  IF boot.state \in {"configured", "running"} THEN parseConfig(boot.env)
  ELSE NoConfig

\* The key the configured image service was constructed with (this.apiKey =
\* config.stabilityApiKey and the like).
imageApiKey(cfg) ==
  CASE cfg.imageProvider = "huggingface" -> cfg.huggingfaceApiKey
    [] cfg.imageProvider = "stability-ai" -> cfg.stabilityApiKey
    [] cfg.imageProvider = "google-imagen" -> cfg.googleGeminiApiKey
    [] OTHER -> undefined


(***************************************************************************)
(* POST /api/evolution/start/:photoId: the request body.                   *)
(***************************************************************************)
\* req.body of a start request: iterations absent, or a number.
NoRequest == [sent |-> FALSE, given |-> FALSE, iterations |-> 0]
Absent == [sent |-> TRUE, given |-> FALSE, iterations |-> 0]
Requested(n) == [sent |-> TRUE, given |-> TRUE, iterations |-> n]

\* req.body.iterations || 60
iterationsOrDefault(body) ==
  IF ~body.given THEN 60 ELSE OrDefault(body.iterations, 60)

(***************************************************************************)
(* Initial state: no run yet, nothing stored, no invocation.               *)
(***************************************************************************)
\* The local variables of an invocation of processEvolution not yet called.
IdleInvocation ==
  [pc |-> "idle",
   jobData |-> [evolutionId |-> 1, evolutionFound |-> FALSE,
               photoFound |-> FALSE],
   evolution |-> NoRun, iteration |-> 0, inRetry |-> FALSE, retryCount |-> 0,
   previousFrameBuffer |-> NoImage, previousPrompt |-> NoPrompt,
   promptResult |-> NoPrompt, imageResult |-> NoImage, error |-> NULL,
   result |-> NoResult, attempts |-> [i \in Iterations |-> 0],
   lastCall |-> NoCall, exhaustedAt |-> 0, ledgerWrites |-> NoWrites,
   faults |-> NoFaults]

Init ==
  /\ variant \in {"guided", "fixed"}
  /\ ledger = NoRun
  /\ frames = [i \in Iterations |-> NoFrame]
  /\ blobs = [i \in Iterations |-> NoImage]
  /\ ep = "idle"
  /\ queueJob = "none"
  /\ pc = "idle"
  /\ jobData = [evolutionId |-> 1, evolutionFound |-> FALSE,
               photoFound |-> FALSE]
  /\ evolution = NoRun
  /\ iteration = 0
  /\ inRetry = FALSE
  /\ retryCount = 0
  /\ previousFrameBuffer = NoImage
  /\ previousPrompt = NoPrompt
  /\ promptResult = NoPrompt
  /\ imageResult = NoImage
  /\ error = NULL
  /\ result = NoResult
  /\ attempts = [i \in Iterations |-> 0]
  /\ lastCall = NoCall
  /\ exhaustedAt = 0
  /\ ledgerWrites = NoWrites
  /\ faults = NoFaults
  /\ faultsLeft = AnyNumber
  /\ self = 1
  /\ peer = IdleInvocation
  /\ other = NoStores
  /\ boot \in {Deployed, DeployedRejected}
  /\ request = NoRequest
  /\ attemptsMade = 0

procVars == <<pc, jobData, evolution, loopVars, error, result, histVars>>

(***************************************************************************)
(* POST /api/evolution/start/:photoId.  The photo is found and approved    *)
(* (the handler returns before creating anything otherwise).               *)
(***************************************************************************)
\* evolutionRepository.create({source_photo_id, total_iterations:
\* req.body.iterations || 60})
StartCreate(body) ==
  /\ boot.state = "running"
  /\ ep = "idle"
  /\ pc = "idle"
  /\ request' = body
  /\ ledger' = create(iterationsOrDefault(body))
  /\ ep' = "created"
  /\ UNCHANGED <<variant, other, boot, attemptsMade, schedVars, frames,
                 blobs, queueJob, procVars>>

\* if (req.body.useQueue): evolutionQueue.add('process-evolution', ...)
StartQueueAdd ==
  /\ ep = "created"
  /\ pc = "idle"
  /\ queueJob' = "waiting"
  /\ ep' = "added"
  /\ UNCHANGED <<variant, sysVars, schedVars, storeVars, procVars>>

\* await evolutionRepository.updateStatus(evolution.id, 'queued'); 202
StartQueueStatus ==
  /\ ep = "added"
  /\ ledger' = updateStatus(ledger, "queued")
  /\ ep' = "responded"
  /\ UNCHANGED <<variant, sysVars, schedVars,
                 frames, blobs, queueJob, procVars>>

\* The worker's processor: a placeholder that returns without calling
\* processEvolution and without touching the ledger.
WorkerProcess ==
  /\ queueJob = "waiting"
  /\ queueJob' = "completed"
  /\ attemptsMade' = attemptsMade + 1
  /\ UNCHANGED <<variant, other, boot, request, schedVars, storeVars, ep,
                 procVars>>

\* Option 2: processEvolution({data: {evolutionId, sourcePhotoId}, ...})
\* started in the background; 202.
StartDirect ==
  /\ ep = "created"
  /\ pc = "idle"
  /\ pc' = "findEvolution"
  /\ jobData' = [evolutionId |-> 1, evolutionFound |-> TRUE,
                  photoFound |-> TRUE]
  /\ ep' = "responded"
  /\ UNCHANGED <<variant, sysVars, schedVars,
                 storeVars, queueJob, evolution, loopVars, error,
                 result, histVars>>

(***************************************************************************)
(* processEvolution(job), called by another caller than the endpoint: the  *)
(* ids in job.data are the caller's and may name no row.                   *)
(***************************************************************************)
Invoke(evolutionFound, photoFound) ==
  /\ boot.state = "running"
  /\ pc = "idle"
  /\ ep \in {"idle", "created"}
  /\ evolutionFound => ledger.exists
  /\ ~(evolutionFound /\ photoFound)
  /\ pc' = "findEvolution"
  /\ jobData' = [evolutionId |-> 1, evolutionFound |-> evolutionFound,
                  photoFound |-> photoFound]
  /\ ep' = "responded"
  /\ UNCHANGED <<variant, sysVars, schedVars,
                 storeVars, queueJob, evolution, loopVars, error,
                 result, histVars>>

(***************************************************************************)
(* processEvolution: the outer try block before the loop.                  *)
(***************************************************************************)
\* A call into the database, the blob store, the LLM, the image provider or
\* the job throws although the program did nothing wrong: the first such
\* failure of the invocation is remembered, later ones are only counted.
Fault(step) ==
  /\ faultsLeft.limited => faultsLeft.n > 0
  /\ faultsLeft' = IF faultsLeft.limited
                   THEN [faultsLeft EXCEPT !.n = @ - 1] ELSE faultsLeft
  /\ faults' = IF faults.n = 0
               THEN [n |-> 1, step |-> step, iteration |-> iteration]
               ELSE [n |-> 2, step |-> "several", iteration |-> 0]

Throw_retry(message) ==
  /\ error' = message
  /\ pc' = "backoff"

\* An error reaching the outer catch: control goes to markFailed.
Throw(message) ==
  /\ error' = message
  /\ pc' = "markFailed"

\* const evolution = await evolutionRepository.findById(evolutionId)
FindEvolution ==
  /\ pc = "findEvolution"
  /\ \/ /\ jobData.evolutionFound
        /\ evolution' = ledger
        /\ pc' = "findPhoto"
        /\ UNCHANGED <<error, faultVars>>
     \/ /\ ~jobData.evolutionFound
        /\ Throw("Evolution not found")
        /\ UNCHANGED <<evolution, faultVars>>
     \/ /\ Throw("query failed")
        /\ Fault("findEvolution")
        /\ UNCHANGED evolution
  /\ UNCHANGED <<variant, sysVars, schedVars,
                 storeVars, entryVars, jobData, loopVars,
                 result, attempts, lastCall, exhaustedAt, ledgerWrites>>

\* const photo = await photoRepository.findById(sourcePhotoId)
FindPhoto ==
  /\ pc = "findPhoto"
  /\ \/ /\ jobData.photoFound
        /\ pc' = "download"
        /\ UNCHANGED <<error, faultVars>>
     \/ /\ ~jobData.photoFound
        /\ Throw("Source photo not found")
        /\ UNCHANGED faultVars
     \/ /\ Throw("query failed")
        /\ Fault("findPhoto")
  /\ UNCHANGED <<variant, sysVars, schedVars,
                 storeVars, entryVars, jobData, evolution,
                 loopVars, result, attempts, lastCall, exhaustedAt,
                 ledgerWrites>>

\* const sourceImageBuffer = await storageService.downloadFile('uploads', ...)
Download ==
  /\ pc = "download"
  /\ \/ /\ pc' = "setProcessing"
        /\ UNCHANGED <<error, faultVars>>
     \/ /\ Throw("Failed to download file")
        /\ Fault("download")
  /\ UNCHANGED <<variant, sysVars, schedVars,
                 storeVars, entryVars, jobData, evolution,
                 loopVars, result, attempts, lastCall, exhaustedAt,
                 ledgerWrites>>

\* await evolutionRepository.updateStatus(evolutionId, 'processing');
\* let previousFrameBuffer = sourceImageBuffer; let previousPrompt;
\* for (let iteration = 1; ...
SetProcessing ==
  /\ pc = "setProcessing"
  /\ \/ /\ ledger' = updateStatus(ledger, "processing")
        /\ previousFrameBuffer' = SourcePhoto
        /\ previousPrompt' = NoPrompt
        /\ iteration' = 1
        /\ pc' = "loop"
        /\ ledgerWrites' = [ledgerWrites EXCEPT !.processing = @ + 1]
        /\ UNCHANGED <<error, faultVars>>
     \/ /\ Throw("query failed")
        /\ Fault("setProcessing")
        /\ UNCHANGED <<ledger, previousFrameBuffer, previousPrompt, iteration,
                       ledgerWrites>>
  /\ UNCHANGED <<variant, sysVars, schedVars,
                 frames, blobs, entryVars, jobData,
                 evolution, inRetry, retryCount, promptResult, imageResult,
                 result, attempts, lastCall, exhaustedAt>>

(***************************************************************************)
(* processEvolution: the iteration loop.  The initial attempt of an        *)
(* iteration is the body of the inner try; a retry is the body of the try  *)
(* inside the while loop of its catch block.  Both make the same calls in  *)
(* the same order; where they differ the actions test inRetry.             *)
(***************************************************************************)
Attempt == IF inRetry THEN retryCount ELSE 0

FirstStep == IF variant = "guided" THEN "llm" ELSE "generate"

\* while (retryCount < maxRetries)
RetryLoopContinues_never(rc) == rc > maxRetries

RetryLoopContinues(rc) == rc < maxRetries

\* if (retryCount >= maxRetries) throw new Error(`Failed after ...`)
RetryExhausted_off(rc) == rc > maxRetries

RetryExhausted(rc) == rc >= maxRetries

\* previousFrameBuffer = imageResult.imageBuffer at the end of a retry.
AdoptRetryImage_keep(previous, generated) == previous

AdoptRetryImage(previous, generated) == generated

Wrapped_noMessage(message) == "Failed after 3 retries"

\* throw new Error(`Failed after ${maxRetries} retries: ${retryError.message}`)
Wrapped(message) == "Failed after 3 retries: " \o message

\* The for statement's condition.  The loop body is entered with the
\* initial attempt, or the loop is left for markComplete.
Loop ==
  /\ pc = "loop"
  /\ \/ /\ iteration <= evolution.total_iterations
        /\ inRetry' = FALSE
        /\ attempts' = [attempts EXCEPT ![iteration] = @ + 1]
        /\ pc' = FirstStep
     \/ /\ iteration > evolution.total_iterations
        /\ pc' = "markComplete"
        /\ UNCHANGED <<inRetry, attempts>>
  /\ UNCHANGED <<variant, sysVars, schedVars,
                 storeVars, entryVars, jobData, evolution, iteration,
                 retryCount, previousFrameBuffer, previousPrompt, promptResult,
                 imageResult, error, result, lastCall, exhaustedAt,
                 ledgerWrites, faultVars>>

\* An error thrown inside an attempt of the current iteration.  From the
\* initial attempt the catch block starts the retry loop; from a retry the
\* inner catch rethrows when the retries are used up and loops otherwise.
\* A while loop left without break or throw falls through to the next
\* iteration of the for loop.
IterationFails(message) ==
  IF ~inRetry
  THEN IF RetryLoopContinues(0)
       THEN /\ inRetry' = TRUE
            /\ retryCount' = 1
            /\ pc' = "backoff"
            /\ UNCHANGED <<iteration, error, exhaustedAt>>
       ELSE /\ pc' = "loop"
            /\ iteration' = iteration + 1
            /\ retryCount' = 0
            /\ UNCHANGED <<inRetry, error, exhaustedAt>>
  ELSE IF RetryExhausted(retryCount)
       THEN /\ Throw(Wrapped(message))
            /\ exhaustedAt' = iteration
            /\ UNCHANGED <<iteration, inRetry, retryCount>>
       ELSE IF RetryLoopContinues(retryCount)
            THEN /\ retryCount' = retryCount + 1
                 /\ pc' = "backoff"
                 /\ UNCHANGED <<iteration, inRetry, error, exhaustedAt>>
            ELSE /\ pc' = "loop"
                 /\ iteration' = iteration + 1
                 /\ UNCHANGED <<inRetry, retryCount, error, exhaustedAt>>

\* await new Promise(resolve => setTimeout(resolve, 2000 * retryCount))
Backoff ==
  /\ pc = "backoff"
  /\ attempts' = [attempts EXCEPT ![iteration] = @ + 1]
  /\ pc' = FirstStep
  /\ UNCHANGED <<variant, sysVars, schedVars,
                 storeVars, entryVars, jobData, evolution,
                 loopVars, error, result, lastCall, exhaustedAt, ledgerWrites,
                 faultVars>>

\* Guided variant: llmProvider.analyzeImageAndGeneratePrompt({imageBuffer:
\* previousFrameBuffer, iteration, previousPrompt}).  The initial attempt
\* assigns previousPrompt right after the call; a retry does so only after
\* the progress write.
DerivePrompt ==
  /\ pc = "llm"
  /\ lastCall' = [kind |-> "llm", iteration |-> iteration,
                  image |-> previousFrameBuffer,
                  previousPrompt |-> previousPrompt, prompt |-> NoPrompt]
  /\ \/ /\ promptResult' = Prompt(iteration, Attempt)
        /\ previousPrompt' = IF inRetry THEN previousPrompt
                             ELSE Prompt(iteration, Attempt)
        /\ pc' = "generate"
        /\ UNCHANGED <<iteration, inRetry, retryCount, error, exhaustedAt,
                       faultVars>>
     \/ /\ IterationFails("prompt generation failed")
        /\ Fault("llm")
        /\ UNCHANGED <<promptResult, previousPrompt>>
  /\ UNCHANGED <<variant, sysVars, schedVars,
                 storeVars, entryVars, jobData, evolution,
                 previousFrameBuffer, imageResult, result, attempts,
                 ledgerWrites>>

\* GeminiService.buildSystemPrompt: the previous instruction that enters the
\* request.  Iteration 1 gets the cold-start text, which ignores
\* options.previousPrompt; a later iteration gets options.previousPrompt.
buildSystemPrompt(iter, previous) == IF iter = 1 THEN NoPrompt ELSE previous

\* The prompt of the current attempt: promptResult.prompt, or STATIC_PROMPT.
PromptUsed_perIteration == Prompt(iteration, Attempt)

PromptUsed == IF variant = "guided" THEN promptResult ELSE STATIC_PROMPT

\* The img2img source: the guided variant passes none (sourceImage is
\* commented out), the fixed variant passes previousFrameBuffer.
SourceImage_original == IF variant = "guided" THEN NoImage ELSE SourcePhoto

SourceImage == IF variant = "guided" THEN NoImage ELSE previousFrameBuffer

\* imageProvider.generateImage({prompt, sourceImage, aspectRatio: '1:1'})
GenerateImage ==
  /\ pc = "generate"
  /\ lastCall' = [kind |-> "image", iteration |-> iteration,
                  image |-> SourceImage,
                  previousPrompt |-> NoPrompt, prompt |-> PromptUsed]
  /\ \/ /\ imageApiKey(config) # "rejected"
        /\ imageResult' = Img(iteration, Attempt)
        /\ pc' = "metadata"
        /\ UNCHANGED <<iteration, inRetry, retryCount, error, exhaustedAt,
                       faultVars>>
     \/ /\ IterationFails("image generation failed")
        /\ Fault("generate")
        /\ UNCHANGED imageResult
     \/ /\ imageApiKey(config) = "rejected"
        /\ IterationFails(
             "Failed to generate image: Stability AI API error (401)")
        /\ UNCHANGED <<imageResult, faultVars>>
  /\ UNCHANGED <<variant, sysVars, schedVars,
                 storeVars, entryVars, jobData, evolution,
                 previousFrameBuffer, previousPrompt, promptResult, result,
                 attempts, ledgerWrites>>

\* const imageMetadata = await sharp(imageResult.imageBuffer).metadata()
ImageMetadata ==
  /\ pc = "metadata"
  /\ \/ /\ pc' = "upload"
        /\ UNCHANGED <<iteration, inRetry, retryCount, error, exhaustedAt,
                       faultVars>>
     \/ /\ IterationFails("unsupported image format")
        /\ Fault("metadata")
  /\ UNCHANGED <<variant, sysVars, schedVars,
                 storeVars, entryVars, jobData, evolution,
                 previousFrameBuffer, previousPrompt, promptResult, imageResult,
                 result, attempts, lastCall, ledgerWrites>>

\* const framePath = await storageService.uploadEvolutionFrame(evolutionId,
\* iteration, imageResult.imageBuffer)
UploadFrame ==
  /\ pc = "upload"
  /\ \/ /\ blobs' = uploadEvolutionFrame(blobs, iteration, imageResult)
        /\ pc' = "insert"
        /\ UNCHANGED <<iteration, inRetry, retryCount, error, exhaustedAt,
                       faultVars>>
     \/ /\ IterationFails("Failed to upload file")
        /\ Fault("upload")
        /\ UNCHANGED blobs
  /\ UNCHANGED <<variant, sysVars, schedVars,
                 ledger, frames, entryVars, jobData,
                 evolution, previousFrameBuffer, previousPrompt, promptResult,
                 imageResult, result, attempts, lastCall, ledgerWrites>>

\* await evolutionFrameRepository.create({evolution_id, iteration_number,
\* file_path: framePath, file_size, width, height, prompt_used, ...})
InsertFrame ==
  /\ pc = "insert"
  /\ \/ /\ ~UniqueViolation(frames, iteration)
        /\ frames' = frameCreate(frames, iteration, FrameKey(iteration),
                                 imageResult, PromptUsed)
        /\ pc' = "progress"
        /\ UNCHANGED <<iteration, inRetry, retryCount, error, exhaustedAt,
                       faultVars>>
     \/ /\ UniqueViolation(frames, iteration)
        /\ IterationFails("duplicate key value violates unique constraint")
        /\ UNCHANGED <<frames, faultVars>>
     \/ /\ IterationFails("query failed")
        /\ Fault("insert")
        /\ UNCHANGED frames
  /\ UNCHANGED <<variant, sysVars, schedVars,
                 ledger, blobs, entryVars, jobData,
                 evolution, previousFrameBuffer, previousPrompt, promptResult,
                 imageResult, result, attempts, lastCall, ledgerWrites>>

\* await evolutionRepository.updateProgress(evolutionId, iteration).  In a
\* retry: then previousFrameBuffer = imageResult.imageBuffer; previousPrompt
\* = promptResult.prompt (guided variant); break, and on to iteration + 1.
UpdateProgress ==
  /\ pc = "progress"
  /\ \/ /\ ledger' = updateProgress(ledger, iteration)
        /\ IF inRetry
           THEN /\ previousFrameBuffer' =
                     AdoptRetryImage(previousFrameBuffer, imageResult)
                /\ previousPrompt' = IF variant = "guided" THEN promptResult
                                     ELSE previousPrompt
                /\ iteration' = iteration + 1
                /\ pc' = "loop"
           ELSE /\ pc' = "jobProgress"
                /\ UNCHANGED <<previousFrameBuffer, previousPrompt, iteration>>
        /\ ledgerWrites' = [ledgerWrites EXCEPT !.progress = @ + 1]
        /\ UNCHANGED <<inRetry, retryCount, error, exhaustedAt, faultVars>>
     \/ /\ IterationFails("query failed")
        /\ Fault("progress")
        /\ UNCHANGED <<ledger, previousFrameBuffer, previousPrompt,
                       ledgerWrites>>
  /\ UNCHANGED <<variant, sysVars, schedVars,
                 frames, blobs, entryVars, jobData,
                 evolution, promptResult, imageResult, result, attempts,
                 lastCall>>

\* Initial attempt only: await job.updateProgress({iteration, total,
\* percentage}); previousFrameBuffer = imageResult.imageBuffer; then the
\* delay unless this was the last iteration.
JobProgress ==
  /\ pc = "jobProgress"
  /\ \/ /\ previousFrameBuffer' = imageResult
        /\ IF iteration < evolution.total_iterations
           THEN /\ pc' = "delay"
                /\ UNCHANGED iteration
           ELSE /\ pc' = "loop"
                /\ iteration' = iteration + 1
        /\ UNCHANGED <<inRetry, retryCount, error, exhaustedAt, faultVars>>
     \/ /\ IterationFails("job progress update failed")
        /\ Fault("jobProgress")
        /\ UNCHANGED previousFrameBuffer
  /\ UNCHANGED <<variant, sysVars, schedVars,
                 storeVars, entryVars, jobData, evolution,
                 previousPrompt, promptResult, imageResult, result, attempts,
                 lastCall, ledgerWrites>>

\* await new Promise(resolve => setTimeout(resolve, 1000))
Delay ==
  /\ pc = "delay"
  /\ iteration' = iteration + 1
  /\ pc' = "loop"
  /\ UNCHANGED <<variant, sysVars, schedVars,
                 storeVars, entryVars, jobData, evolution, inRetry,
                 retryCount, previousFrameBuffer, previousPrompt, promptResult,
                 imageResult, error, result, histVars>>

(***************************************************************************)
(* processEvolution: the end of the run.                                   *)
(***************************************************************************)
\* await evolutionRepository.markComplete(evolutionId); return {...,
\* framesGenerated: evolution.total_iterations, status: 'completed'}
MarkComplete ==
  /\ pc = "markComplete"
  /\ \/ /\ ledger' = markComplete(ledger)
        /\ result' = [status |-> "completed",
                      framesGenerated |-> evolution.total_iterations]
        /\ pc' = "returned"
        /\ ledgerWrites' = [ledgerWrites EXCEPT !.completed = @ + 1]
        /\ UNCHANGED <<error, faultVars>>
     \/ /\ Throw("query failed")
        /\ Fault("markComplete")
        /\ UNCHANGED <<ledger, result, ledgerWrites>>
  /\ UNCHANGED <<variant, sysVars, schedVars,
                 frames, blobs, entryVars, jobData,
                 evolution, loopVars, attempts, lastCall, exhaustedAt>>

\* catch (error): await evolutionRepository.markFailed(evolutionId,
\* error.message); return {..., framesGenerated: 0, status: 'failed'}.
\* An error thrown by markFailed leaves the function as a rejection.
MarkFailed ==
  /\ pc = "markFailed"
  /\ \/ /\ ledger' = markFailed(ledger, error)
        /\ result' = [status |-> "failed", framesGenerated |-> 0]
        /\ pc' = "returned"
        /\ ledgerWrites' = [ledgerWrites EXCEPT !.failed = @ + 1]
        /\ UNCHANGED faultVars
     \/ /\ pc' = "threw"
        /\ Fault("markFailed")
        /\ UNCHANGED <<ledger, result, ledgerWrites>>
  /\ UNCHANGED <<variant, sysVars, schedVars,
                 frames, blobs, entryVars, jobData,
                 evolution, loopVars, error, attempts, lastCall, exhaustedAt>>

Next ==
  \/ \E n \in Iterations : StartCreate(Requested(n))
  \/ StartQueueAdd
  \/ StartQueueStatus
  \/ WorkerProcess
  \/ StartDirect
  \/ \E e, p \in BOOLEAN : Invoke(e, p)
  \/ FindEvolution
  \/ FindPhoto
  \/ Download
  \/ SetProcessing
  \/ Loop
  \/ Backoff
  \/ DerivePrompt
  \/ GenerateImage
  \/ ImageMetadata
  \/ UploadFrame
  \/ InsertFrame
  \/ UpdateProgress
  \/ JobProgress
  \/ Delay
  \/ MarkComplete
  \/ MarkFailed

Spec == Init /\ [][Next]_vars

(***************************************************************************)
(* Two invocations of processEvolution for the same run.  processEvolution *)
(* takes the run id from job.data and checks nothing about the run's       *)
(* status, so a second call with the same ids (the queue delivering the    *)
(* job again, a second caller) runs the same code against the same rows    *)
(* and the same keys.  Node runs one invocation up to its next await and   *)
(* then resumes whichever invocation's awaited call has settled: the       *)
(* variables from pc on are those of the invocation that takes the next    *)
(* step, peer holds those of the other one.                                *)
(***************************************************************************)
\* Largest total_iterations of a run that two invocations process, and the
\* largest number of calls the environment lets fail while they do.
MaxSharedIterations == 2
MaxSharedFaults == 1

Locals ==
  [pc |-> pc, jobData |-> jobData, evolution |-> evolution,
   iteration |-> iteration, inRetry |-> inRetry, retryCount |-> retryCount,
   previousFrameBuffer |-> previousFrameBuffer,
   previousPrompt |-> previousPrompt, promptResult |-> promptResult,
   imageResult |-> imageResult, error |-> error, result |-> result,
   attempts |-> attempts, lastCall |-> lastCall, exhaustedAt |-> exhaustedAt,
   ledgerWrites |-> ledgerWrites, faults |-> faults]

\* The run has been created by the start endpoint (evolutionRepository.create).
InitTwo ==
  /\ variant \in {"guided", "fixed"}
  /\ \E n \in 1..MaxSharedIterations :
       ledger = create(n) /\ request = Requested(n)
  /\ frames = [i \in Iterations |-> NoFrame]
  /\ blobs = [i \in Iterations |-> NoImage]
  /\ ep = "created"
  /\ queueJob = "none"
  /\ pc = IdleInvocation.pc
  /\ jobData = IdleInvocation.jobData
  /\ evolution = IdleInvocation.evolution
  /\ iteration = IdleInvocation.iteration
  /\ inRetry = IdleInvocation.inRetry
  /\ retryCount = IdleInvocation.retryCount
  /\ previousFrameBuffer = IdleInvocation.previousFrameBuffer
  /\ previousPrompt = IdleInvocation.previousPrompt
  /\ promptResult = IdleInvocation.promptResult
  /\ imageResult = IdleInvocation.imageResult
  /\ error = IdleInvocation.error
  /\ result = IdleInvocation.result
  /\ attempts = IdleInvocation.attempts
  /\ lastCall = IdleInvocation.lastCall
  /\ exhaustedAt = IdleInvocation.exhaustedAt
  /\ ledgerWrites = IdleInvocation.ledgerWrites
  /\ faults = IdleInvocation.faults
  /\ faultsLeft = [limited |-> TRUE, n |-> MaxSharedFaults]
  /\ self = 1
  /\ peer = IdleInvocation
  /\ other = NoStores
  /\ boot = Deployed
  /\ attemptsMade = 0

\* processEvolution is called again with the job data of the first call.
InvokeSecond ==
  /\ self = 1
  /\ pc # "idle"
  /\ peer.pc = "idle"
  /\ peer' = [peer EXCEPT !.pc = "findEvolution", !.jobData = jobData]
  /\ UNCHANGED <<variant, sysVars, storeVars, entryVars, procVars, self>>

\* The other invocation's awaited call settles first: it takes the next
\* step, on the rows and objects its own ids name.
Switch ==
  /\ peer.pc \notin {"idle", "returned", "threw"}
  /\ peer' = Locals
  /\ self' = 3 - self
  /\ pc' = peer.pc
  /\ jobData' = peer.jobData
  /\ evolution' = peer.evolution
  /\ iteration' = peer.iteration
  /\ inRetry' = peer.inRetry
  /\ retryCount' = peer.retryCount
  /\ previousFrameBuffer' = peer.previousFrameBuffer
  /\ previousPrompt' = peer.previousPrompt
  /\ promptResult' = peer.promptResult
  /\ imageResult' = peer.imageResult
  /\ error' = peer.error
  /\ result' = peer.result
  /\ attempts' = peer.attempts
  /\ lastCall' = peer.lastCall
  /\ exhaustedAt' = peer.exhaustedAt
  /\ ledgerWrites' = peer.ledgerWrites
  /\ faults' = peer.faults
  /\ LET sameRow == LedgerId(peer.jobData.evolutionId)
                      = LedgerId(jobData.evolutionId)
         sameRows == FrameEvolutionId(peer.jobData.evolutionId)
                       = FrameEvolutionId(jobData.evolutionId)
         sameKeys == KeyPrefix(peer.jobData.evolutionId)
                       = KeyPrefix(jobData.evolutionId)
     IN  /\ ledger' = IF sameRow THEN ledger ELSE other.ledger
         /\ frames' = IF sameRows THEN frames ELSE other.frames
         /\ blobs' = IF sameKeys THEN blobs ELSE other.blobs
         /\ other' = [ledger |-> IF sameRow THEN other.ledger ELSE ledger,
                      frames |-> IF sameRows THEN other.frames ELSE frames,
                      blobs |-> IF sameKeys THEN other.blobs ELSE blobs]
  /\ UNCHANGED <<variant, entryVars, boot, request, attemptsMade,
                 faultsLeft>>

NextTwo ==
  \/ StartDirect
  \/ InvokeSecond
  \/ Switch
  \/ FindEvolution
  \/ FindPhoto
  \/ Download
  \/ SetProcessing
  \/ Loop
  \/ Backoff
  \/ DerivePrompt
  \/ GenerateImage
  \/ ImageMetadata
  \/ UploadFrame
  \/ InsertFrame
  \/ UpdateProgress
  \/ JobProgress
  \/ Delay
  \/ MarkComplete
  \/ MarkFailed

SpecTwo == InitTwo /\ [][NextTwo]_vars

(***************************************************************************)
(* Two runs.  While the invocation of the first run is under way the start *)
(* endpoint is called again (for the same photo): it creates a second run  *)
(* and calls processEvolution with the new run's id.                       *)
(***************************************************************************)
StartSecond(iterations) ==
  /\ boot.state = "running"
  /\ self = 1
  /\ pc # "idle"
  /\ peer.pc = "idle"
  /\ ~other.ledger.exists
  /\ other' = [ledger |-> create(iterations),
               frames |-> [i \in Iterations |-> NoFrame],
               blobs |-> [i \in Iterations |-> NoImage]]
  /\ peer' = [peer EXCEPT !.pc = "findEvolution",
                          !.jobData = [evolutionId |-> 2,
                                       evolutionFound |-> TRUE,
                                       photoFound |-> TRUE]]
  /\ UNCHANGED <<variant, storeVars, entryVars, procVars, self, boot,
                 request, attemptsMade>>

NextRuns ==
  \/ StartDirect
  \/ \E n \in 1..MaxSharedIterations : StartSecond(n)
  \/ Switch
  \/ FindEvolution
  \/ FindPhoto
  \/ Download
  \/ SetProcessing
  \/ Loop
  \/ Backoff
  \/ DerivePrompt
  \/ GenerateImage
  \/ ImageMetadata
  \/ UploadFrame
  \/ InsertFrame
  \/ UpdateProgress
  \/ JobProgress
  \/ Delay
  \/ MarkComplete
  \/ MarkFailed

SpecRuns == InitTwo /\ [][NextRuns]_vars

(***************************************************************************)
(* The backend process.  Loading the config module runs parseConfig; the   *)
(* routes are registered and the server listens only after it returned.    *)
(***************************************************************************)
\* Values of the environment variables parseConfig reads.
KeyValues == {undefined, "", "key", "rejected"}

Envs ==
  [DATABASE_URL : {undefined, "url"},
   IMAGE_PROVIDER : ImageProviders \cup {undefined, "dall-e"},
   LLM_PROVIDER : LlmProviders \cup {undefined, "openai"},
   GOOGLE_GEMINI_API_KEY : KeyValues, ANTHROPIC_API_KEY : KeyValues,
   STABILITY_API_KEY : KeyValues, HUGGINGFACE_API_KEY : KeyValues]

\* The process has been started and has not loaded its config yet.
InitConfig ==
  /\ variant \in {"guided", "fixed"}
  /\ ledger = NoRun
  /\ frames = [i \in Iterations |-> NoFrame]
  /\ blobs = [i \in Iterations |-> NoImage]
  /\ ep = "idle"
  /\ queueJob = "none"
  /\ pc = IdleInvocation.pc
  /\ jobData = IdleInvocation.jobData
  /\ evolution = IdleInvocation.evolution
  /\ iteration = IdleInvocation.iteration
  /\ inRetry = IdleInvocation.inRetry
  /\ retryCount = IdleInvocation.retryCount
  /\ previousFrameBuffer = IdleInvocation.previousFrameBuffer
  /\ previousPrompt = IdleInvocation.previousPrompt
  /\ promptResult = IdleInvocation.promptResult
  /\ imageResult = IdleInvocation.imageResult
  /\ error = IdleInvocation.error
  /\ result = IdleInvocation.result
  /\ attempts = IdleInvocation.attempts
  /\ lastCall = IdleInvocation.lastCall
  /\ exhaustedAt = IdleInvocation.exhaustedAt
  /\ ledgerWrites = IdleInvocation.ledgerWrites
  /\ faults = IdleInvocation.faults
  /\ faultsLeft = AnyNumber
  /\ self = 1
  /\ peer = IdleInvocation
  /\ other = NoStores
  /\ \E env \in Envs :
       boot = [state |-> "starting", env |-> env]
  /\ request = NoRequest
  /\ attemptsMade = 0

\* Loading the config module: parseConfig() returns, or process.exit(1).
ParseConfig ==
  /\ boot.state = "starting"
  /\ LET parsed == parseConfig(boot.env)
     IN  boot' = [state |-> IF parsed.success THEN "configured"
                            ELSE "exited",
                  env |-> boot.env]
  /\ UNCHANGED <<variant, storeVars, entryVars, procVars, schedVars, other,
                 request, attemptsMade>>

\* Loading the provider modules: the two singletons are constructed, or the
\* error thrown by a factory ends the process.
LoadProviders ==
  /\ boot.state = "configured"
  /\ boot' = [state |-> IF /\ getImageProvider(config).constructed
                           /\ getLLMProvider(config).constructed
                        THEN "running" ELSE "exited",
              env |-> boot.env]
  /\ UNCHANGED <<variant, storeVars, entryVars, procVars, schedVars, other,
                 request, attemptsMade>>

NextConfig ==
  \/ ParseConfig
  \/ LoadProviders
  \/ \E n \in Iterations : StartCreate(Requested(n))
  \/ StartQueueAdd
  \/ StartQueueStatus
  \/ WorkerProcess
  \/ StartDirect

SpecConfig == InitConfig /\ [][NextConfig]_vars

(***************************************************************************)
(* Run creation for any request: the body gives no count, or a count from  *)
(* 0 to MaxRequested.  The run is created and started; its processing is   *)
(* followed by Spec for the counts up to MaxIterations.                    *)
(***************************************************************************)
MaxRequested == 12

NextCreate ==
  \/ StartCreate(Absent)
  \/ \E n \in 0..MaxRequested : StartCreate(Requested(n))
  \/ StartQueueAdd
  \/ StartQueueStatus
  \/ WorkerProcess
  \/ StartDirect

SpecCreate == Init /\ [][NextCreate]_vars

\* The backend process terminates: a request handler or an invocation of
\* processEvolution that was under way is gone.
Crash ==
  /\ boot.state = "running"
  /\ boot' = [boot EXCEPT !.state = "exited"]
  /\ ep' = IF ep \in {"idle", "responded"} THEN ep ELSE "crashed"
  /\ pc' = IF pc \in {"idle", "returned", "threw"} THEN pc ELSE "crashed"
  /\ UNCHANGED <<variant, storeVars, queueJob, jobData, evolution, loopVars,
                 error, result, histVars, schedVars, other, request,
                 attemptsMade>>

Restart_failStuck ==
  /\ boot.state = "exited"
  /\ boot' = [boot EXCEPT !.state = "starting"]
  /\ ledger' = IF ledger.status = "processing"
               THEN markFailed(ledger, "interrupted") ELSE ledger
  /\ UNCHANGED <<variant, frames, blobs, entryVars, procVars, schedVars,
                 other, request, attemptsMade>>

\* The backend process is started again.  Its start-up initializes the
\* storage buckets and registers the routes; it reads and writes no run.
Restart ==
  /\ boot.state = "exited"
  /\ boot' = [boot EXCEPT !.state = "starting"]
  /\ UNCHANGED <<variant, storeVars, entryVars, procVars, schedVars, other,
                 request, attemptsMade>>

NextCrash ==
  \/ Next
  \/ Crash
  \/ Restart
  \/ ParseConfig
  \/ LoadProviders

SpecCrash == Init /\ [][NextCrash]_vars

(***************************************************************************)
(* Queue mode with a consumer that processes the run: the worker takes the *)
(* job and calls processEvolution(job).  The queue tries a job whose       *)
(* processor rejected again until it has made queueAttempts attempts.      *)
(***************************************************************************)
\* The largest number of calls the environment lets fail while the queue
\* works on the run's job.
MaxQueueFaults == 2

\* No run yet, nothing stored, no job.
InitQueue ==
  /\ variant \in {"guided", "fixed"}
  /\ ledger = NoRun
  /\ frames = [i \in Iterations |-> NoFrame]
  /\ blobs = [i \in Iterations |-> NoImage]
  /\ ep = "idle"
  /\ queueJob = "none"
  /\ pc = IdleInvocation.pc
  /\ jobData = IdleInvocation.jobData
  /\ evolution = IdleInvocation.evolution
  /\ iteration = IdleInvocation.iteration
  /\ inRetry = IdleInvocation.inRetry
  /\ retryCount = IdleInvocation.retryCount
  /\ previousFrameBuffer = IdleInvocation.previousFrameBuffer
  /\ previousPrompt = IdleInvocation.previousPrompt
  /\ promptResult = IdleInvocation.promptResult
  /\ imageResult = IdleInvocation.imageResult
  /\ error = IdleInvocation.error
  /\ result = IdleInvocation.result
  /\ attempts = IdleInvocation.attempts
  /\ lastCall = IdleInvocation.lastCall
  /\ exhaustedAt = IdleInvocation.exhaustedAt
  /\ ledgerWrites = IdleInvocation.ledgerWrites
  /\ faults = IdleInvocation.faults
  /\ faultsLeft = [limited |-> TRUE, n |-> MaxQueueFaults]
  /\ self = 1
  /\ peer = IdleInvocation
  /\ other = NoStores
  /\ boot = Deployed
  /\ request = NoRequest
  /\ attemptsMade = 0

\* The worker picks the waiting job up and calls processEvolution(job).
Consume ==
  /\ queueJob = "waiting"
  /\ queueJob' = "active"
  /\ attemptsMade' = attemptsMade + 1
  /\ self' = attemptsMade + 1
  /\ pc' = "findEvolution"
  /\ jobData' = [evolutionId |-> 1, evolutionFound |-> TRUE,
                  photoFound |-> TRUE]
  /\ evolution' = IdleInvocation.evolution
  /\ iteration' = IdleInvocation.iteration
  /\ inRetry' = IdleInvocation.inRetry
  /\ retryCount' = IdleInvocation.retryCount
  /\ previousFrameBuffer' = IdleInvocation.previousFrameBuffer
  /\ previousPrompt' = IdleInvocation.previousPrompt
  /\ promptResult' = IdleInvocation.promptResult
  /\ imageResult' = IdleInvocation.imageResult
  /\ error' = IdleInvocation.error
  /\ result' = IdleInvocation.result
  /\ attempts' = IdleInvocation.attempts
  /\ lastCall' = IdleInvocation.lastCall
  /\ exhaustedAt' = IdleInvocation.exhaustedAt
  /\ ledgerWrites' = IdleInvocation.ledgerWrites
  /\ faults' = IdleInvocation.faults
  /\ UNCHANGED <<variant, storeVars, ep, faultsLeft, peer, other, boot,
                 request>>

\* The processor's promise settles: a resolved job is completed, a rejected
\* one waits for its next attempt or, after the last attempt, is failed.
JobSettles ==
  /\ queueJob = "active"
  /\ pc \in {"returned", "threw"}
  /\ queueJob' = IF pc = "returned" THEN "completed"
                 ELSE IF attemptsMade < queueAttempts THEN "waiting"
                 ELSE "failed"
  /\ UNCHANGED <<variant, storeVars, ep, procVars, schedVars, sysVars>>

NextQueue ==
  \/ \E n \in Iterations : StartCreate(Requested(n))
  \/ StartQueueAdd
  \/ StartQueueStatus
  \/ Consume
  \/ JobSettles
  \/ FindEvolution
  \/ FindPhoto
  \/ Download
  \/ SetProcessing
  \/ Loop
  \/ Backoff
  \/ DerivePrompt
  \/ GenerateImage
  \/ ImageMetadata
  \/ UploadFrame
  \/ InsertFrame
  \/ UpdateProgress
  \/ JobProgress
  \/ Delay
  \/ MarkComplete
  \/ MarkFailed

SpecQueue == InitQueue /\ [][NextQueue]_vars

(***************************************************************************)
(* Properties.                                                             *)
(***************************************************************************)
N == ledger.total_iterations

Returned == pc = "returned" /\ ledger.exists

\* C1: a run whose loop ran to its end without exhausting the retries of
\* any iteration has exactly the frames 1..N, one per iteration, and
\* current_iteration = N; once processEvolution has returned 'completed'
\* the run is 'completed' too.  Also when an iteration succeeded on a retry.
C1_SuccessfulRun ==
  /\ pc = "markComplete" =>
       /\ FrameSet = 1..N
       /\ \A i \in FrameSet : frames[i].iteration_number = i
       /\ ledger.current_iteration = N
  /\ (pc = "returned" /\ result.status = "completed") =>
       /\ FrameSet = 1..N
       /\ Cardinality(FrameSet) = N
       /\ \A i \in FrameSet : frames[i].iteration_number = i
       /\ ledger.status = "completed"
       /\ ledger.current_iteration = N

C1_Witness ==
  /\ pc = "returned"
  /\ result.status = "completed"
  /\ N = MaxIterations
  /\ \E i \in Iterations : attempts[i] >= 2
  /\ \E i \in Iterations : attempts[i] = 1

\* C2 (as claimed): a run that failed at iteration k by exhausting the
\* retries has exactly the frames 1..k-1, no frame k, status 'failed' with
\* an error text, and current_iteration = k-1.
C2_FailedRunPrefix ==
  (Returned /\ exhaustedAt >= 1) =>
    /\ FrameSet = 1..(exhaustedAt - 1)
    /\ ledger.status = "failed"
    /\ ledger.error_message # NULL
    /\ ledger.current_iteration = exhaustedAt - 1

\* C3 (as claimed): when processEvolution has returned, the run is either
\* 'completed' with all of the frames 1..N, or 'failed' with an error text
\* and exactly the frames 1..k for some k < N.
C3_TerminalShapes ==
  Returned =>
    \/ /\ ledger.status = "completed"
       /\ FrameSet = 1..N
    \/ /\ ledger.status = "failed"
       /\ ledger.error_message # NULL
       /\ \E k \in 0..(N - 1) : FrameSet = 1..k

\* C4: whenever the ledger's current_iteration is i >= 1, the blob and the
\* frame row of iteration i (and of every earlier one) are stored.
C4_FrameBeforeProgress ==
  \A i \in Iterations :
    i <= ledger.current_iteration =>
      /\ frames[i].exists
      /\ blobs[FrameKey(i)] # NoImage

C4_Witness ==
  /\ ledger.current_iteration = MaxIterations
  /\ attempts[MaxIterations] >= 2
  /\ attempts[1] = 1

LoopEnded == pc \in {"markFailed", "returned", "threw"}

\* C5: no iteration is attempted more than 4 times (the initial attempt and
\* 3 retries); the loop moves past an iteration only when its frame is
\* stored; after the 4th failed attempt the loop has ended: control is at
\* markFailed or beyond and the run, once returned, is 'failed'.
C5_RetryBound ==
  /\ \A i \in Iterations : attempts[i] <= 4
  /\ \A i \in Iterations :
       (pc \notin {"idle", "markFailed", "returned", "threw"} /\ i < iteration)
         => frames[i].exists
  /\ exhaustedAt >= 1 =>
       /\ attempts[exhaustedAt] = 4
       /\ LoopEnded
       /\ \A i \in Iterations : i > exhaustedAt => attempts[i] = 0
       /\ Returned => ledger.status = "failed"

C5_Witness ==
  /\ exhaustedAt = MaxIterations
  /\ Returned
  /\ ledger.status = "failed"

\* The call that hands the previous image to a provider: the LLM call of
\* the guided variant, the img2img call of the fixed variant.
InputCall ==
  /\ lastCall.kind = (IF variant = "guided" THEN "llm" ELSE "image")
  /\ lastCall.iteration >= 2

\* C6: after a successful attempt of iteration i, retry or not, the loop
\* goes on with i+1: the iteration counter never goes back, no earlier
\* iteration is attempted again, no earlier frame or blob is written again,
\* and the call of iteration i+1 gets the image of the last (successful)
\* attempt of iteration i, which is the image stored as frame i.
C6_RetryResumes ==
  /\ [](InputCall =>
          LET i == lastCall.iteration - 1 IN
            /\ lastCall.image = Img(i, attempts[i] - 1)
            /\ frames[i].exists
            /\ frames[i].file_size = lastCall.image
            /\ blobs[FrameKey(i)] = lastCall.image)
  /\ [][/\ iteration' >= iteration
        /\ \A j \in Iterations :
             j < iteration =>
               /\ attempts'[j] = attempts[j]
               /\ frames'[j] = frames[j]
               /\ blobs'[FrameKey(j)] = blobs[FrameKey(j)]]_vars

C6_Witness ==
  /\ InputCall
  /\ attempts[lastCall.iteration - 1] = 3
  /\ lastCall.image = Img(lastCall.iteration - 1, 2)

Transitions ==
  {<<"none", "queued">>, <<"queued", "processing">>,
   <<"processing", "completed">>, <<"processing", "failed">>}

C8_EndsTerminal ==
  (pc \in {"returned", "threw"} /\ ledger.exists) =>
    /\ ledger.status \in {"completed", "failed"}
    /\ ledger.status = "failed" => ledger.error_message = error

C10_ProgressMonotone ==
  /\ [](ledger.current_iteration \in 0..N)
  /\ [][ledger.exists =>
          ledger'.current_iteration >= ledger.current_iteration]_vars

C10_Witness ==
  /\ ledger.status = "processing"
  /\ ledger.current_iteration = MaxIterations
  /\ MaxIterations >= 2

\* The invocation has ended: it returned a result or rejected.
Ended == pc \in {"returned", "threw"}

\* C11: an invocation of processEvolution for an existing run performs
\* exactly one terminal status write (markComplete or markFailed, not both
\* and not neither: once it has ended, one of them has taken effect) and
\* at most one write of 'processing', and no progress write takes effect
\* before the write of 'processing'.
C11_OneTerminalWrite ==
  jobData.evolutionFound =>
    /\ ledgerWrites.completed + ledgerWrites.failed <= 1
    /\ Ended => ledgerWrites.completed + ledgerWrites.failed = 1
    /\ ledgerWrites.processing <= 1
    /\ ledgerWrites.progress > 0 => ledgerWrites.processing = 1

\* C12: in every reachable state there is at most one frame row per
\* iteration of the run, also when an iteration is retried after an attempt
\* that had inserted its row, and when two invocations process the run at
\* the same time (SpecTwo).
C12_OneRowPerIteration ==
  \A i \in Iterations :
    /\ frames[i].count <= 1
    /\ frames[i].exists <=> frames[i].count = 1

\* Both cases at once: the other invocation inserted the row of iteration
\* 1, lost its progress write and used up its retries on the duplicate key;
\* this invocation, with no failed call of its own, is retrying iteration 1
\* because its insert met the other's row.
C12_Witness ==
  /\ frames[1].count = 1
  /\ frames[1].file_size.by # self
  /\ faults.n = 0
  /\ attempts[1] >= 2
  /\ peer.faults.step = "progress"
  /\ peer.exhaustedAt = 1

\* C13: the failure path of processEvolution (the retries of iteration i,
\* their exhaustion and markFailed) leaves the frame rows and the blobs of
\* the iterations before i as they are: no step of it changes or removes
\* one, and when the retries of i are used up every earlier iteration still
\* has its row and, under its key, the image the row records.
C13_FailurePathKeepsFrames ==
  /\ [](exhaustedAt >= 1 =>
          \A j \in Iterations :
            j < exhaustedAt => /\ frames[j].exists
                               /\ blobs[j] = frames[j].file_size)
  /\ [][(inRetry \/ pc = "markFailed" \/ exhaustedAt >= 1) =>
          \A j \in Iterations :
            j < iteration => /\ frames'[j] = frames[j]
                             /\ blobs'[j] = blobs[j]]_vars

\* Iteration 2 used up its retries, which had uploaded an image for it, and
\* the run has been marked failed.
C13_Witness ==
  /\ exhaustedAt = 2
  /\ blobs[2] # NoImage
  /\ pc = "returned"
  /\ ledger.status = "failed"
  /\ frames[1].exists

\* C14: once the frame of iteration i exists (its blob is stored and its
\* row inserted) no later step of the run writes the blob key of i again or
\* changes the row, a retry of iteration i after a failure that followed
\* the insert included.
C14_FrameNeverRewritten ==
  [][\A i \in Iterations :
       (frames[i].exists /\ blobs[FrameKey(i)] # NoImage) =>
          /\ frames'[i] = frames[i]
          /\ blobs'[FrameKey(i)] = blobs[FrameKey(i)]]_vars

\* C15: while the frame row of iteration i exists, two fetches of the image
\* of frame i return the same bytes, whatever steps the orchestrator takes
\* between them (stated for two fetches one step apart; any two fetches
\* follow by chaining).
C15_FetchIdempotent ==
  [][\A i \in Iterations :
       (frames[i].exists /\ frames'[i].exists) =>
          getFrameImage(frames', blobs', i) =
            getFrameImage(frames, blobs, i)]_vars

\* C16: a single transient persistence failure during iteration i (of the
\* blob upload, of the frame insert or of the ledger progress write, every
\* other call succeeding) is recovered by the retries of iteration i: the
\* run does not fail, and the loop goes on to i + 1 with exactly one frame
\* of iteration i and current_iteration at least i.
C16_PersistenceFaultRecovered ==
  (faults.n = 1 /\ faults.step \in {"upload", "insert", "progress"}) =>
    /\ exhaustedAt = 0
    /\ pc \notin {"markFailed", "threw"}
    /\ ledger.status # "failed"
    /\ iteration > faults.iteration =>
         /\ frames[faults.iteration].count = 1
         /\ ledger.current_iteration >= faults.iteration

\* The output image of the iteration before i: the bytes persisted as frame
\* i - 1, or the original source photo for i = 1.
PreviousOutput(i) == IF i = 1 THEN SourcePhoto ELSE frames[i - 1].file_size

\* C17 (as stated): in both variants and for retries too, the image passed
\* to the image provider as the transformation source of iteration i is the
\* output image of iteration i - 1, and the source photo for i = 1.
C17_ImageProviderSource ==
  lastCall.kind = "image" => lastCall.image = PreviousOutput(lastCall.iteration)

\* C17 (amended): the fixed-instruction variant passes the output image of
\* iteration i - 1 (the source photo for i = 1) to the image provider as
\* the transformation source; the guided variant passes that image to the
\* prompt derivation call and calls the image provider with no source
\* image.  Both for initial attempts and for retries.
C17_ImageProviderSourceAmended ==
  /\ (lastCall.kind = "image" /\ variant = "fixed") =>
        lastCall.image = PreviousOutput(lastCall.iteration)
  /\ (lastCall.kind = "image" /\ variant = "guided") =>
        lastCall.image = NoImage
  /\ lastCall.kind = "llm" =>
        /\ variant = "guided"
        /\ lastCall.image = PreviousOutput(lastCall.iteration)

\* Fixed-instruction variant: a retry of iteration 2 calls the image
\* provider with the image of frame 1, which itself came from a retry.
C17_Witness ==
  /\ variant = "fixed"
  /\ lastCall.kind = "image"
  /\ lastCall.iteration = 2
  /\ inRetry
  /\ frames[1].file_size.att >= 1
  /\ lastCall.image = frames[1].file_size

\* C18: in the fixed-instruction variant, whatever N and whichever attempts
\* fail and are retried, every persisted frame records the same instruction
\* (STATIC_PROMPT), every image provider call is issued with it, and no
\* prompt derivation call is made.
C18_FixedInstruction ==
  variant = "fixed" =>
    /\ \A i \in Iterations :
         frames[i].exists => frames[i].prompt_used = STATIC_PROMPT
    /\ lastCall.kind = "image" => lastCall.prompt = STATIC_PROMPT
    /\ lastCall.kind # "llm"
    /\ promptResult = NoPrompt

\* A fixed-instruction run of at least two iterations has completed, its
\* second frame coming from a retry.
C18_Witness ==
  /\ variant = "fixed"
  /\ Returned
  /\ ledger.status = "completed"
  /\ N >= 2
  /\ FrameSet = 1..N
  /\ frames[2].file_size.att >= 1

\* C19: in the guided variant every prompt derivation call for iteration 1
\* is made with no previous instruction, and every prompt derivation call
\* for an iteration i >= 2, initial attempt or retry, receives as its
\* previous instruction the instruction recorded on frame i - 1.
C19_PreviousInstruction ==
  (variant = "guided" /\ lastCall.kind = "llm") =>
    buildSystemPrompt(lastCall.iteration, lastCall.previousPrompt) =
      IF lastCall.iteration = 1 THEN NoPrompt
      ELSE frames[lastCall.iteration - 1].prompt_used

\* Frame i is durably persisted: its row is inserted and its blob holds the
\* image the row records.
Persisted(i) == frames[i].exists /\ blobs[FrameKey(i)] = frames[i].file_size

\* C20: within one run no prompt derivation or image provider call for an
\* iteration is started before the frames of all earlier iterations are
\* durably persisted, and at most one iteration is in progress: the calls
\* made are for the current iteration, no later iteration has been started
\* and every earlier one has its frame.
C20_Sequential ==
  /\ pc \in {"llm", "generate"} =>
       \A i \in Iterations : i < iteration => Persisted(i)
  /\ lastCall.kind # "none" =>
       /\ lastCall.iteration <= iteration
       /\ \A i \in Iterations : i < lastCall.iteration => Persisted(i)
  /\ \A j \in Iterations :
       attempts[j] >= 1 =>
         /\ j <= iteration
         /\ j < iteration => Persisted(j)

\* A retry of iteration 2 is about to call a provider; frame 1 came from a
\* retry too.
C20_Witness ==
  /\ pc \in {"llm", "generate"}
  /\ iteration = 2
  /\ inRetry
  /\ attempts[2] >= 2
  /\ frames[1].file_size.att >= 1

\* C26: the run's retry_count is the number of times an invocation marked
\* the run failed: every markFailed that takes effect adds exactly 1, and
\* nothing else changes it (no per-iteration retry, no markComplete, no
\* other ledger write).
C26_RetryCountPerFailure ==
  ledger.exists =>
    ledger.retry_count = ledgerWrites.failed + peer.ledgerWrites.failed

C26_Witness ==
  /\ ledger.retry_count = 2
  /\ ledger.status = "failed"
  /\ \E i \in Iterations : attempts[i] > 1

\* C27 (as claimed): a run in a terminal status has its duration stored.
C27_DurationStored ==
  ledger.status \in {"completed", "failed"} =>
    ledger.duration_seconds # NULL

\* C28: an invocation whose run id or source photo id names no row makes
\* no LLM call and no image call, writes no frame row and no blob, never
\* waits for a backoff and never retries; when it returns, it returns
\* 'failed' with the error of the missing row unless a call failed first.
C28_MissingIdNoRetry ==
  (pc # "idle" /\ ~(jobData.evolutionFound /\ jobData.photoFound)) =>
    /\ lastCall = NoCall
    /\ \A i \in Iterations : attempts[i] = 0
    /\ FrameSet = {}
    /\ \A i \in Iterations : blobs[i] = NoImage
    /\ pc \notin {"backoff", "loop", "llm", "generate"}
    /\ ~inRetry /\ retryCount = 0 /\ iteration = 0
    /\ ledgerWrites.processing = 0
    /\ pc = "returned" =>
         /\ result = [status |-> "failed", framesGenerated |-> 0]
         /\ faults.n = 0 =>
              error = IF jobData.evolutionFound
                      THEN "Source photo not found"
                      ELSE "Evolution not found"

C28_Witness ==
  /\ pc = "returned"
  /\ jobData.evolutionFound
  /\ ~jobData.photoFound
  /\ ledger.status = "failed"
  /\ ledger.error_message = "Source photo not found"

\* C30 (as claimed): processEvolution never rejects: whatever fails inside
\* the run, the invocation ends by returning a result.
C30_NeverPropagates == pc # "threw"

\* C22 (as claimed): with an image provider key that the provider rejects,
\* the failure is not retried: the invocation never waits for a backoff
\* and never is in a retry of an iteration.
C22_CredentialNotRetried ==
  imageApiKey(config) = "rejected" =>
    pc # "backoff" /\ ~inRetry /\ retryCount = 0

\* The providers an environment configures (the defaults where the variable
\* is unset) and the variable that holds the API key of each.
ConfiguredProviders(env) ==
  {IF env.LLM_PROVIDER = undefined THEN "gemini" ELSE env.LLM_PROVIDER,
   IF env.IMAGE_PROVIDER = undefined THEN "huggingface"
   ELSE env.IMAGE_PROVIDER}

ApiKeyOf(env, provider) ==
  CASE provider = "gemini" -> env.GOOGLE_GEMINI_API_KEY
    [] provider = "google-imagen" -> env.GOOGLE_GEMINI_API_KEY
    [] provider = "claude" -> env.ANTHROPIC_API_KEY
    [] provider = "stability-ai" -> env.STABILITY_API_KEY
    [] provider = "huggingface" -> env.HUGGINGFACE_API_KEY
    [] OTHER -> "none required"

RequiredKeyMissing(env) ==
  \E provider \in ConfiguredProviders(env) :
    ApiKeyOf(env, provider) \in {undefined, ""}

\* C23: when the API key of the configured LLM provider or of the
\* configured image provider is missing, loading the configuration ends
\* the process (the only step the process takes is to exit), and no run is
\* created, queued or handed to processEvolution.
C23_MissingKeyExits ==
  /\ [](RequiredKeyMissing(boot.env) =>
          /\ boot.state \in {"starting", "exited"}
          /\ ~ledger.exists
          /\ ep = "idle" /\ pc = "idle" /\ queueJob = "none")
  /\ [][RequiredKeyMissing(boot.env) /\ boot' # boot =>
          boot.state = "starting" /\ boot'.state = "exited"]_vars

C23_Witness ==
  /\ boot.state = "exited"
  /\ boot.env.DATABASE_URL = "url"
  /\ boot.env.LLM_PROVIDER = "claude"
  /\ boot.env.ANTHROPIC_API_KEY = ""
  /\ boot.env.IMAGE_PROVIDER = undefined
  /\ boot.env.HUGGINGFACE_API_KEY = "key"

\* C24 (as claimed): a run whose processing failed on the first attempt of
\* its job is attempted again by the queue: the job is not completed after
\* one attempt that returned 'failed'.
C24_FailedRunAttemptedAgain ==
  (attemptsMade = 1 /\ pc = "returned" /\ result.status = "failed") =>
    queueJob # "completed"

\* Positions of processEvolution inside its iteration loop.
InLoop ==
  {"loop", "backoff", "llm", "generate", "metadata", "upload", "insert",
   "progress", "jobProgress", "delay"}

\* C29: when the backend process terminates while the invocation is in its
\* iteration loop, the run is 'processing' and the termination changes no
\* row and no object; from then on no step of the system (the queue's
\* worker, the process starting again and loading its config, the start
\* endpoint) changes the run's row, its frame rows or its objects, and the
\* invocation is never resumed.
C29_StuckProcessing ==
  /\ [][(pc \in InLoop) /\ pc' = "crashed" =>
          ledger'.status = "processing" /\ UNCHANGED storeVars]_vars
  /\ [][pc = "crashed" => pc' = "crashed" /\ UNCHANGED storeVars]_vars

C29_Witness ==
  /\ pc = "crashed"
  /\ boot.state = "running"
  /\ ledger.status = "processing"
  /\ ledger.current_iteration >= 1
  /\ ledger.current_iteration < N
  /\ FrameSet # {}

\* C25 (as claimed): a run that has been created and not yet started is
\* 'queued' with current_iteration 0 and no frames, and its
\* total_iterations is the count its request gave, or 60 when the request
\* gave none.
C25_CreatedRun ==
  (ledger.exists /\ pc = "idle") =>
    /\ ledger.status = "queued"
    /\ ledger.current_iteration = 0
    /\ FrameSet = {}
    /\ ledger.total_iterations =
         IF request.given THEN request.iterations ELSE 60

\* The rows and objects (l, f, b) of a run are what the invocation inv, and
\* only it, wrote: every frame row and object carries an image that inv
\* generated, and the run's status, current_iteration, retry_count and
\* frame set are those that inv's own writes and result give, as in a run
\* that executes alone.
WrittenByOwn(l, f, b, inv) ==
  /\ \A i \in Iterations :
       /\ f[i].exists => f[i].file_size.by = inv.jobData.evolutionId
       /\ b[i] # NoImage => b[i].by = inv.jobData.evolutionId
       /\ f[i].exists => f[i].count = 1 /\ b[i] # NoImage
  /\ l.status = IF inv.ledgerWrites.completed > 0 THEN "completed"
                ELSE IF inv.ledgerWrites.failed > 0 THEN "failed"
                ELSE IF inv.ledgerWrites.processing > 0 THEN "processing"
                ELSE "queued"
  /\ l.current_iteration = inv.ledgerWrites.progress
  /\ l.retry_count = inv.ledgerWrites.failed
  /\ {i \in Iterations : f[i].exists} \in
       {1..l.current_iteration, 1..(l.current_iteration + 1)}
  /\ (inv.pc = "returned" /\ inv.result.status = "completed") =>
       /\ l.status = "completed"
       /\ l.current_iteration = l.total_iterations
       /\ {i \in Iterations : f[i].exists} = 1..l.total_iterations

\* C21: while two runs with different ids execute at the same time, under
\* every interleaving of their steps, each run's ledger row, frame rows
\* and objects are written only by the invocation that processes that run,
\* and each run's status, current_iteration and frame set are those its
\* own invocation produces.
C21_RunsIndependent ==
  /\ WrittenByOwn(ledger, frames, blobs, Locals)
  /\ peer.pc # "idle" =>
       /\ peer.jobData.evolutionId # jobData.evolutionId
       /\ WrittenByOwn(other.ledger, other.frames, other.blobs, peer)

C21_Witness ==
  /\ pc = "returned" /\ peer.pc = "returned"
  /\ result.status = "completed" /\ peer.result.status = "failed"
  /\ ledger.total_iterations = MaxSharedIterations
  /\ other.ledger.current_iteration >= 1
  /\ faults.n + peer.faults.n >= 1

\* C31 (as claimed): for every iteration i < N that succeeds, on its first
\* attempt or on a retry, the step that leaves iteration i for i + 1 is the
\* fixed inter-step delay, and the delay is never entered at iteration N.
C31_DelayBetweenIterations ==
  [][/\ (/\ (pc \in InLoop)
         /\ iteration' = iteration + 1
         /\ iteration < evolution.total_iterations
         /\ frames[iteration].exists) => pc = "delay"
     /\ pc' = "delay" => iteration < evolution.total_iterations]_vars

\* The messages of the errors that the step at a program position raises.
RaisedBy(step) ==
  CASE step = "llm" -> {"prompt generation failed"}
    [] step = "generate" ->
         {"image generation failed",
          "Failed to generate image: Stability AI API error (401)"}
    [] step = "metadata" -> {"unsupported image format"}
    [] step = "upload" -> {"Failed to upload file"}
    [] step = "insert" -> {"duplicate key value violates unique constraint",
                           "query failed"}
    [] step = "progress" -> {"query failed"}
    [] step = "jobProgress" -> {"job progress update failed"}
    [] OTHER -> {}

\* A text that ends with the message, with or without the retry prefix.
ContainsMessage(text, message) ==
  text \in {message, "Failed after 3 retries: " \o message}

\* C32: when a run fails by retry exhaustion at iteration i, the error
\* thrown to the outer catch contains the message of the error raised by
\* the failing step of the last (4th) attempt of iteration i, and that text
\* is what markFailed stores as the run's error_message.
C32_LastErrorStored ==
  [][/\ (exhaustedAt = 0 /\ exhaustedAt' # 0) =>
          /\ exhaustedAt' = iteration
          /\ attempts[iteration] = maxRetries + 1
          /\ \E m \in RaisedBy(pc) : ContainsMessage(error', m)
     /\ (exhaustedAt # 0 /\ pc = "markFailed" /\ pc' = "returned") =>
          /\ ledger'.status = "failed"
          /\ ledger'.error_message = error]_vars

\* Iteration 1 was exhausted by a duplicate-key error of the frame insert,
\* after an earlier attempt of the iteration had inserted the frame and
\* failed later with another message.
C32_Witness ==
  /\ pc = "returned"
  /\ exhaustedAt = 1
  /\ frames[1].exists
  /\ ledger.error_message =
       "Failed after 3 retries: duplicate key value violates unique constraint"

\* C33 (as claimed): for every iteration i that succeeds, on its first
\* attempt or on a retry, the step that advances the ledger counter to i is
\* followed by the progress report of iteration i to the job observer.
C33_ProgressReported ==
  [][(pc = "progress" /\ ledgerWrites'.progress = ledgerWrites.progress + 1)
       => /\ ledger'.current_iteration = iteration
          /\ pc' = "jobProgress"]_vars

\* C34 (as claimed): when the only failure of a run is a progress report
\* that throws, no iteration is attempted a second time and the run does
\* not fail.
C34_ReportBestEffort ==
  (faults.n = 1 /\ faults.step = "jobProgress") =>
    /\ ~inRetry
    /\ \A i \in Iterations : attempts[i] <= 1
    /\ pc \notin {"markFailed", "threw"}
    /\ ledger.status # "failed"

\* C37 (as claimed): when processEvolution has returned, the framesGenerated
\* field of its result equals the number of frames persisted for the run,
\* for a completed run and for a failed run alike.
C37_FramesGeneratedCount ==
  Returned => result.framesGenerated = Cardinality(FrameSet)

\* C39 (as claimed): in every state, for every frame row of the run, the
\* blob stored at the row's file_path is the image whose size the row
\* records, and in the guided variant the row's prompt is the prompt of the
\* attempt that generated that image, also after retries of the iteration.
C39_RowDescribesBlob ==
  \A i \in Iterations :
    frames[i].exists =>
      /\ blobs[frames[i].file_path] = frames[i].file_size
      /\ variant = "guided" =>
           frames[i].prompt_used.att = blobs[frames[i].file_path].att

\* C36: in every state of a run processed by a single invocation, the
\* number of frame rows is current_iteration or current_iteration + 1 and
\* the rows are those of the iterations 1..count, one each; hence the
\* percentage that GET /:id computes from the frame count lies between the
\* percentage of current_iteration and that of current_iteration + 1, and
\* is at most 100.
C36_FrameCountTracksCounter ==
  ledger.exists =>
    /\ countFrames(frames) \in
         {ledger.current_iteration, ledger.current_iteration + 1}
    /\ FrameSet = 1..countFrames(frames)
    /\ \A i \in FrameSet : frames[i].count = 1
    /\ getProgress(ledger, frames).percentage >=
         Percentage(ledger.current_iteration, ledger.total_iterations)
    /\ getProgress(ledger, frames).percentage <=
         Percentage(ledger.current_iteration + 1, ledger.total_iterations)
    /\ getProgress(ledger, frames).percentage <= 100

\* Frame 2 of 3 is inserted by a retry and the ledger counter is still 1:
\* the endpoint shows 67 % while the ledger is at 1 of 3.
C36_Witness ==
  /\ pc = "progress"
  /\ inRetry
  /\ iteration = 2
  /\ ledger.total_iterations = 3
  /\ ledger.current_iteration = 1
  /\ getProgress(ledger, frames) = [frames |-> 2, total |-> 3,
                                    percentage |-> 67]

\* C35: the write of 'processing' by an invocation of processEvolution
\* takes effect whatever the status of the run was, 'processing' written by
\* another invocation and the terminal statuses included, and the invocation
\* goes on into the iteration loop: nothing keeps a second invocation for
\* the same run out of the loop.
C35_ProcessingAlwaysWins ==
  [][(self' = self /\ pc = "setProcessing" /\ pc' = "loop") =>
       /\ ledger'.status = "processing"
       /\ ledger'.started_at # NULL
       /\ ledgerWrites'.processing = 1
       /\ iteration' = 1]_vars

\* Two invocations for the same run have both written 'processing' and are
\* both inside the iteration loop.
C35_Witness ==
  /\ jobData.evolutionId = peer.jobData.evolutionId
  /\ pc \in InLoop
  /\ peer.pc \in InLoop
  /\ ledgerWrites.processing = 1
  /\ peer.ledgerWrites.processing = 1
  /\ ledger.status = "processing"

\* C40 (as claimed): in queue mode the start endpoint's write of 'queued',
\* issued after the job was added to the queue, never finds the run in a
\* status that a job consumer has written ('processing' or a terminal
\* status), under any interleaving of the endpoint and the consumer.
C40_QueuedNeverOverwrites ==
  [][(ep = "added" /\ ep' = "responded") =>
       ledger.status \notin {"processing", "completed", "failed"}]_vars

\* C38 (as claimed): whenever configuration validation has accepted the
\* environment, the image provider factory and the LLM provider factory
\* each construct a provider for the configured name: no accepted value
\* ends in 'Unknown image provider' or 'not yet implemented'.
C38_AcceptedProviderConstructed ==
  config.success =>
    /\ getImageProvider(config).constructed
    /\ getLLMProvider(config).constructed

====
